---- MODULE Spec2Model ----
(***************************************************************************)
(* Event-driven ingestion pipeline of SAM-Lakehouse.                       *)
(*                                                                         *)
(* lambda_handler (src/src/lambda_function.py) walks the records of a      *)
(* batch; for each one it asks the DynamoDB ledger (src/src/dynamo_event.py)*)
(* whether the file's etag is known, writes a PENDING record, runs         *)
(* process_event_data (src/src/process_files.py) and writes COMPLETED or   *)
(* FAIL.  The pipeline steps live in src/src/utils_lib.py.                 *)
(*                                                                         *)
(* Every call to an external service (DynamoDB, S3, Glue, the Iceberg      *)
(* catalog) is one atomic step of an invocation; its outcome is chosen     *)
(* nondeterministically among the outcomes the code distinguishes.         *)
(* Names are tuples of one-character strings so that the regular           *)
(* expression of process_event_data can be evaluated on them.              *)
(***************************************************************************)
EXTENDS Integers, Sequences, FiniteSets, TLC

VARIABLES
    configured,   \* DYNAMO_TABLE_NAME is set in the environment
    ledger,       \* DynamoDB table: function from the ids present to items
    namespaces,   \* Glue databases that exist
    tables,       \* Iceberg tables: function from identifiers present to tables
    commits,      \* etag -> number of successful tbl.append of that file
    pc,           \* invocation -> position in lambda_handler
    batch,        \* invocation -> the records of event['Records'] the loop
                  \*   has not finished: the one in hand and those after it
    size,         \* invocation -> len(event['Records'])
    counter,      \* invocation -> counter
    count_error,  \* invocation -> count_error
    loc,          \* invocation -> locals of the record in hand
    outcomes,     \* invocation -> how many records ended with each result
    delivered     \* records delivered so far, over all invocations

vars == <<configured, ledger, namespaces, tables, commits, pc, batch, size,
          counter, count_error, loc, outcomes, delivered>>

(***************************************************************************)
(* Bounds                                                                  *)
(***************************************************************************)
MaxBatch == 2
MaxDeliveries == 2
MaxIdentLen == 5
MaxPartitionLen == 2

Invocations == {"inv1", "inv2"}

(***************************************************************************)
(* Inputs: schema fields, descriptors (metadata.json), files, events       *)
(***************************************************************************)
F1 == [name |-> "c1", type |-> "int",    required |-> TRUE,  doc |-> ""]
F2 == [name |-> "c2", type |-> "string", required |-> FALSE, doc |-> "second"]
F3 == [name |-> "c3", type |-> "long",   required |-> FALSE, doc |-> "third"]

NsS == <<"s">>
TnGood == <<"s", ".", "a", "b">>
TnUpper == <<"S", ".", "a", "b">>

\* metadata.json as generate_metadata_file writes it: the partition field's
\* name is the name of its source column.
\* schemaOk: "schemas"[0] is a schema Schema.model_validate_json accepts.
D1 == [tableName |-> TnGood, database |-> NsS, fields |-> <<F1>>,
       partition |-> <<"c1">>, schemaOk |-> TRUE]
D2 == [tableName |-> TnGood, database |-> NsS, fields |-> <<F1, F2, F3>>,
       partition |-> <<"c1">>, schemaOk |-> TRUE]
D3 == [tableName |-> TnUpper, database |-> NsS, fields |-> <<F1>>,
       partition |-> <<"c1">>, schemaOk |-> TRUE]
\* a descriptor with every key present whose "schemas"[0] is not a schema
D4 == [tableName |-> TnGood, database |-> NsS, fields |-> <<F1>>,
       partition |-> <<"c1">>, schemaOk |-> FALSE]
Descriptors == {D1, D2, D3, D4}

NoDesc == [tableName |-> <<>>, database |-> <<>>, fields |-> <<>>,
           partition |-> <<>>, schemaOk |-> TRUE]

\* An event: the envelope's fields and, as `nulls`, the columns of the file
\* behind the etag that hold a null.
EvA == [etag |-> "a", key |-> <<"raw", "s", "ab", "y", "fa">>, size |-> 10,
        time |-> "t1", id |-> "id1", nulls |-> {}]
EvB == [etag |-> "b", key |-> <<"raw", "s", "ab", "y", "fb">>, size |-> 20,
        time |-> "t2", id |-> "id2", nulls |-> {"c1"}]
EvShort == [etag |-> "c", key |-> <<"ab", "fc">>, size |-> 30,
            time |-> "t3", id |-> "id3", nulls |-> {}]
Events == {EvA, EvB, EvShort}
Etags == {e.etag : e \in Events}

Batches == UNION {[1..n -> Events] : n \in 1..MaxBatch}

(***************************************************************************)
(* Pure helpers                                                            *)
(***************************************************************************)
\* file_key.split("/")[-4], [-3], [-1]; an IndexError when the key has fewer
\* than four segments.
KeySplits(key) == Len(key) >= 4
KeyDatabase(key) == key[Len(key) - 3]
KeyTable(key) == key[Len(key) - 2]
KeyFileName(key) == key[Len(key)]

Lower == {"a", "b", "s"}

\* ^[a-z]+\.[a-z][a-z_]+$ on exactly the characters of t
FullMatch(t) ==
    \E d \in 1..Len(t) :
        /\ t[d] = "."
        /\ d > 1
        /\ \A j \in 1..(d - 1) : t[j] \in Lower
        /\ Len(t) >= d + 2
        /\ t[d + 1] \in Lower
        /\ \A j \in (d + 2)..Len(t) : t[j] \in Lower \cup {"_"}

\* re.search(pattern, table_name): `$` also matches before a final newline
re_search(t) ==
    \/ FullMatch(t)
    \/ Len(t) > 0 /\ t[Len(t)] = "\n" /\ FullMatch(SubSeq(t, 1, Len(t) - 1))

\* the strings metadata["tableName"] is drawn from when the validation of
\* the identifier is looked at by itself
IdentChars == {"a", "_", ".", "S", "\n"}
Identifiers == UNION {[1..n -> IdentChars] : n \in 0..MaxIdentLen}

\* the namespace part of a "namespace.table" identifier
IdentNamespace(t) ==
    LET d == CHOOSE k \in 1..Len(t) : t[k] = "." IN SubSeq(t, 1, d - 1)

\* A slip in the slice: metadata_schema[:diff_count], the leading fields.
NewGlueFields_leading(glue_fields, metadata_fields) ==
    SubSeq(metadata_fields, 1, Len(metadata_fields) - Len(glue_fields))

\* update_schema: the trailing len(metadata) - len(glue) fields of the
\* descriptor, metadata_schema[-diff_count:]
NewGlueFields(glue_fields, metadata_fields) ==
    LET diff_count == Len(metadata_fields) - Len(glue_fields)
    IN SubSeq(metadata_fields, Len(metadata_fields) - diff_count + 1,
              Len(metadata_fields))

\* update.add_column(col.name, field_type, doc, required)
AddColumn(col) ==
    [name |-> col.name, type |-> col.type, required |-> col.required,
     doc |-> col.doc]

RECURSIVE AddColumns(_, _, _)
AddColumns(live, cols, k) ==
    IF k = 0 THEN live
    ELSE Append(AddColumns(live, cols, k - 1), AddColumn(cols[k]))

\* check_nan_count over the loaded batch: the batch has the columns of the
\* table handle's schema; a column is counted 1 when reading it raises (it
\* is not in the batch) and by its nulls otherwise.
\* A slip in the except clause: a column that cannot be read counts 0.
NanCount_unreadable_ignored(schema, nulls, column) ==
    IF \A j \in 1..Len(schema) : schema[j].name # column THEN 0
    ELSE IF column \in nulls THEN 1 ELSE 0

NanCount(schema, nulls, column) ==
    IF \A j \in 1..Len(schema) : schema[j].name # column THEN 1
    ELSE IF column \in nulls THEN 1 ELSE 0

RECURSIVE check_nan_count(_, _, _, _)
check_nan_count(schema, nulls, col_names, k) ==
    IF k = 0 THEN 0
    ELSE check_nan_count(schema, nulls, col_names, k - 1)
         + NanCount(schema, nulls, col_names[k])

\* A slip in the comparison: total_nan >= 0 instead of total_nan == 0.
check_partition_columns_lenient(schema, nulls, partition) ==
    check_nan_count(schema, nulls, partition, Len(partition)) >= 0

check_partition_columns(schema, nulls, partition) ==
    check_nan_count(schema, nulls, partition, Len(partition)) = 0

(***************************************************************************)
(* Ledger items (manage_dynamo_event)                                      *)
(***************************************************************************)
\* A slip in the index: the table taken from split("/")[-2].
PendingItem_table_from_folder(ev) ==
    [id |-> ev.etag, status |-> "PENDING", file_key |-> ev.key,
     file_size |-> ev.size, event_time |-> ev.time, event_id |-> ev.id,
     database |-> KeyDatabase(ev.key), table |-> ev.key[Len(ev.key) - 1],
     file_name |-> KeyFileName(ev.key), gpk |-> "PENDING",
     gsk |-> <<KeyDatabase(ev.key), KeyTable(ev.key), ev.etag>>]

PendingItem(ev) ==
    [id |-> ev.etag, status |-> "PENDING", file_key |-> ev.key,
     file_size |-> ev.size, event_time |-> ev.time, event_id |-> ev.id,
     database |-> KeyDatabase(ev.key), table |-> KeyTable(ev.key),
     file_name |-> KeyFileName(ev.key), gpk |-> "PENDING",
     gsk |-> <<KeyDatabase(ev.key), KeyTable(ev.key), ev.etag>>]

\* A slip in the key: the item is stored under the event id, not the etag.
PutItem_by_event_id(led, ev) ==
    [x \in DOMAIN led \cup {ev.id} |->
        IF x = ev.id THEN PendingItem(ev) ELSE led[x]]

\* put_item replaces whatever item the id had
PutItem(led, ev) ==
    [x \in DOMAIN led \cup {ev.etag} |->
        IF x = ev.etag THEN PendingItem(ev) ELSE led[x]]

\* update_item SET #STATUS, #GPK, #GSK: sets the three attributes of the
\* item, creating an item with only the key and them when the id has none
UpdateItem(led, ev, status) ==
    LET gsk == <<KeyDatabase(ev.key), KeyTable(ev.key), KeyFileName(ev.key)>>
    IN [x \in DOMAIN led \cup {ev.etag} |->
          IF x # ev.etag THEN led[x]
          ELSE IF x \in DOMAIN led
               THEN [led[x] EXCEPT !.status = status, !.gpk = status,
                                   !.gsk = gsk]
               ELSE [id |-> ev.etag, status |-> status, gpk |-> status,
                     gsk |-> gsk]]

\* get_item: response.get('Item', {}), the item of the id or an empty dict
GetItem(led, id) == IF id \in DOMAIN led THEN led[id] ELSE [x \in {} |-> x]

\* outcomes of a DynamoDB call: it returns, raises ClientError (caught by
\* manage_dynamo_event) or raises something else (not caught anywhere)
LedgerOutcomes == {"ok", "ClientError", "OtherError"}

(***************************************************************************)
(* State after deployment: empty ledger, empty catalog, no invocation       *)
(***************************************************************************)
Results == {"DUPLICATE", "COMMITTED", "FAILED"}
NoOutcomes == [r \in Results |-> 0]

NewLoc ==
    [desc |-> NoDesc, schema |-> <<>>, code |-> "", committed |-> FALSE,
     response |-> "none", object |-> "none"]

Init ==
    /\ configured \in BOOLEAN
    /\ ledger = [x \in {} |-> x]
    /\ namespaces = {}
    /\ tables = [x \in {} |-> x]
    /\ commits = [e \in Etags |-> 0]
    /\ pc = [i \in Invocations |-> "idle"]
    /\ batch = [i \in Invocations |-> <<>>]
    /\ size = [i \in Invocations |-> 0]
    /\ counter = [i \in Invocations |-> 0]
    /\ count_error = [i \in Invocations |-> 0]
    /\ loc = [i \in Invocations |-> NewLoc]
    /\ outcomes = [i \in Invocations |-> NoOutcomes]
    /\ delivered = 0

Ev(i) == Head(batch[i])

Resting(i) == pc[i] \in {"idle", "crashed"}

(***************************************************************************)
(* lambda_handler                                                          *)
(***************************************************************************)
\* The service invokes the handler with a batch of records.
Begin(i, b) ==
    /\ Resting(i)
    /\ delivered + Len(b) <= MaxDeliveries
    /\ pc' = [pc EXCEPT ![i] = "check"]
    /\ batch' = [batch EXCEPT ![i] = b]
    /\ size' = [size EXCEPT ![i] = Len(b)]
    /\ counter' = [counter EXCEPT ![i] = 0]
    /\ count_error' = [count_error EXCEPT ![i] = 0]
    /\ loc' = [loc EXCEPT ![i] = NewLoc]
    /\ outcomes' = [outcomes EXCEPT ![i] = NoOutcomes]
    /\ delivered' = delivered + Len(b)
    /\ UNCHANGED <<configured, ledger, namespaces, tables, commits>>

\* The service hands a batch to the first execution environment that is
\* free, so the second one runs only while the first is busy.
FirstFree(i) == i = "inv1" \/ ~Resting("inv1")

\* An invocation that may overlap the other one.
Start(i) ==
    /\ FirstFree(i)
    /\ \E b \in Batches : Begin(i, b)

\* An invocation that starts when no other one is running.
StartSeq(i) ==
    /\ \A j \in Invocations : Resting(j)
    /\ FirstFree(i)
    /\ \E b \in Batches : Begin(i, b)

\* An exception that nothing catches ends the invocation: its locals are
\* gone and nothing is returned.
Crash(i) ==
    /\ pc' = [pc EXCEPT ![i] = "crashed"]
    /\ batch' = [batch EXCEPT ![i] = <<>>]
    /\ size' = [size EXCEPT ![i] = 0]
    /\ counter' = [counter EXCEPT ![i] = 0]
    /\ count_error' = [count_error EXCEPT ![i] = 0]
    /\ loc' = [loc EXCEPT ![i] = NewLoc]
    /\ outcomes' = [outcomes EXCEPT ![i] = NoOutcomes]
    /\ UNCHANGED <<configured, ledger, namespaces, tables, commits, delivered>>

\* End of the loop body: counter += 1, next record or return.
Finish(i, result, errors) ==
    /\ counter' = [counter EXCEPT ![i] = @ + 1]
    /\ count_error' = [count_error EXCEPT ![i] = @ + errors]
    /\ outcomes' = [outcomes EXCEPT ![i][result] = @ + 1]
    /\ batch' = [batch EXCEPT ![i] = Tail(@)]
    /\ pc' = [pc EXCEPT ![i] =
                IF Len(batch[i]) > 1 THEN "check" ELSE "return"]
    /\ loc' = [loc EXCEPT ![i] = NewLoc]
    /\ UNCHANGED <<configured, size, delivered>>

\* After the loop: the message "Total errors: {count_error} of {counter}
\* records" is returned and the invocation is over.
Return(i) ==
    /\ pc[i] = "return"
    /\ pc' = [pc EXCEPT ![i] = "idle"]
    /\ batch' = [batch EXCEPT ![i] = <<>>]
    /\ size' = [size EXCEPT ![i] = 0]
    /\ counter' = [counter EXCEPT ![i] = 0]
    /\ count_error' = [count_error EXCEPT ![i] = 0]
    /\ outcomes' = [outcomes EXCEPT ![i] = NoOutcomes]
    /\ UNCHANGED <<configured, ledger, namespaces, tables, commits, loc,
                   delivered>>

\* manage_dynamo_event(event, "CHECK") and the branch on its result
Check(i) ==
    /\ pc[i] = "check"
    /\ IF ~configured
       THEN /\ pc' = [pc EXCEPT ![i] = "admit"]
            /\ UNCHANGED <<configured, ledger, namespaces, tables, commits,
                           batch, size, counter, count_error, loc, outcomes,
                           delivered>>
       ELSE IF ~KeySplits(Ev(i).key)
       THEN Crash(i)
       ELSE \E o \in LedgerOutcomes :
              IF o = "OtherError" THEN Crash(i)
              ELSE IF o = "ok" /\ DOMAIN GetItem(ledger, Ev(i).etag) # {}
              THEN IF "file_key" \in DOMAIN GetItem(ledger, Ev(i).etag)
                   THEN /\ Finish(i, "DUPLICATE", 1)
                        /\ UNCHANGED <<ledger, namespaces, tables, commits>>
                   ELSE Crash(i)
              ELSE /\ pc' = [pc EXCEPT ![i] = "admit"]
                   /\ UNCHANGED <<configured, ledger, namespaces, tables,
                                  commits, batch, size, counter, count_error,
                                  loc, outcomes, delivered>>

\* manage_dynamo_event(event, "PENDING"); its result is not looked at
Admit(i) ==
    /\ pc[i] = "admit"
    /\ IF ~configured
       THEN /\ pc' = [pc EXCEPT ![i] = "metadata"]
            /\ UNCHANGED <<configured, ledger, namespaces, tables, commits,
                           batch, size, counter, count_error, loc, outcomes,
                           delivered>>
       ELSE \E o \in LedgerOutcomes :
              IF o = "OtherError" THEN Crash(i)
              ELSE /\ pc' = [pc EXCEPT ![i] = "metadata"]
                   /\ ledger' = IF o = "ok" THEN PutItem(ledger, Ev(i))
                                ELSE ledger
                   /\ UNCHANGED <<configured, namespaces, tables, commits,
                                  batch, size, counter, count_error, loc,
                                  outcomes, delivered>>

\* manage_dynamo_event(event, "COMPLETED" | "FAIL"), count_error, counter
Transition(i) ==
    /\ pc[i] = "transition"
    /\ LET success == loc[i].code = ""
           STATUS == IF success THEN "COMPLETED" ELSE "FAIL"
           errorCount == IF success THEN 0 ELSE 1
           result == IF success THEN "COMMITTED" ELSE "FAILED"
       IN IF ~configured
          THEN /\ Finish(i, result, errorCount)
               /\ UNCHANGED <<ledger, namespaces, tables, commits>>
          ELSE \E o \in LedgerOutcomes :
                 IF o = "OtherError" THEN Crash(i)
                 ELSE /\ Finish(i, result, errorCount)
                      /\ ledger' = IF o = "ok"
                                   THEN UpdateItem(ledger, Ev(i), STATUS)
                                   ELSE ledger
                      /\ UNCHANGED <<namespaces, tables, commits>>

(***************************************************************************)
(* process_event_data: one action per call of the pipeline.  A failed step *)
(* returns {'errorCount': 1, 'errorCode': code, 'success': False}; an      *)
(* exception leaving process_event_data is turned by lambda_handler into   *)
(* the same with code PROCESS_EVENT_ERROR.                                 *)
(***************************************************************************)
Step(i, d, next) ==
    /\ pc' = [pc EXCEPT ![i] = next]
    /\ loc' = [loc EXCEPT ![i].desc = d]

\* A slip in lambda_handler: no try around process_event_data, so what the
\* pipeline raises ends the invocation.
Fail_uncaught(i, code) ==
    IF code = "PROCESS_EVENT_ERROR"
    THEN /\ pc' = [pc EXCEPT ![i] = "crashed"]
         /\ loc' = [loc EXCEPT ![i] = NewLoc]
    ELSE /\ pc' = [pc EXCEPT ![i] = "transition"]
         /\ loc' = [loc EXCEPT ![i].code = code, ![i].desc = NoDesc,
                               ![i].schema = <<>>]

\* process_event_data returns: only its response is left of its locals
Fail(i, code) ==
    /\ pc' = [pc EXCEPT ![i] = "transition"]
    /\ loc' = [loc EXCEPT ![i].code = code, ![i].desc = NoDesc,
                          ![i].schema = <<>>]

\* what s3.get_object and json.loads can meet instead of a descriptor: no
\* object, bytes that are not JSON, the JSON value {} (or another falsy
\* one), JSON without one of the keys process_event_data reads.  The
\* handler's record of it is loc.object.
MetadataOutcomes == {"absent", "unparseable", "empty", "badshape"}

\* 1.1 read_metadata and the extraction of the descriptor's parts, 1.2 the
\* regular expression on tableName, 2. check_glue_database up to
\* glue_client.get_database
ReadMetadataFrom(i, ds) ==
    /\ pc[i] = "metadata"
    /\ \/ \E m \in MetadataOutcomes :
            /\ pc' = [pc EXCEPT ![i] = "transition"]
            /\ loc' = [loc EXCEPT
                         ![i].code = IF m = "badshape"
                                     THEN "METADATA_FILE_ERROR"
                                     ELSE "METADATA_FILE_NOT_FOUND",
                         ![i].object = m]
       \/ \E d \in ds :
            /\ ~re_search(d.tableName)
            /\ Fail(i, "TABLE_NAME_ERROR")
       \/ \E d \in ds :
            /\ re_search(d.tableName)
            /\ \/ /\ d.database \in namespaces
                  /\ Step(i, d, "load_table")
               \/ Step(i, d, "create_database")      \* ClientError
               \/ Fail(i, "GLUE_CONNECTION_ERROR")   \* another exception
    /\ UNCHANGED <<configured, ledger, namespaces, tables, commits, batch, size,
                   counter, count_error, outcomes, delivered>>

\* the metadata.json files of the producers
ReadMetadata(i) == ReadMetadataFrom(i, Descriptors)

\* 2. check_glue_database: glue_client.create_database in the except clause;
\* what it raises leaves check_glue_database and process_event_data
CreateDatabase(i) ==
    /\ pc[i] = "create_database"
    /\ \/ /\ loc[i].desc.database \notin namespaces
          /\ namespaces' = namespaces \cup {loc[i].desc.database}
          /\ Step(i, loc[i].desc, "load_table")
       \/ /\ UNCHANGED namespaces
          /\ Fail(i, "PROCESS_EVENT_ERROR")
    /\ UNCHANGED <<configured, ledger, tables, commits, batch, size, counter,
                   count_error, outcomes, delivered>>

\* A slip in the update: the schema built from the new fields (new_schema)
\* replaces the live one instead of being added to it.
update_schema_replacing(glue_fields, metadata_fields, k) ==
    AddColumns(<<>>, NewGlueFields(glue_fields, metadata_fields), k)

\* update_schema(tbl, glue_fields, metadata_fields): one schema update per
\* new column; the first one that raises ends the loop with the columns
\* before it added.  k is the number of columns added.
update_schema(glue_fields, metadata_fields, k) ==
    AddColumns(glue_fields, NewGlueFields(glue_fields, metadata_fields), k)

\* 3. check_table: the validation of the descriptor's schema, which raises
\* out of process_event_data; catalog.load_table and, for a table that exists, the
\* comparison of the field counts and update_schema, whose result (kept in
\* loc.response) is only used for a message
LoadTable(i) ==
    /\ pc[i] = "load_table"
    /\ LET tn == loc[i].desc.tableName
           metadata_fields == loc[i].desc.fields
       IN \/ /\ ~loc[i].desc.schemaOk       \* Schema.model_validate_json
             /\ Fail(i, "PROCESS_EVENT_ERROR")
             /\ UNCHANGED tables
          \/ /\ loc[i].desc.schemaOk
             /\ Fail(i, "CHECK_TABLE_ERROR")
             /\ UNCHANGED tables
          \/ /\ loc[i].desc.schemaOk
             /\ tn \notin DOMAIN tables
             /\ Step(i, loc[i].desc, "create_table")
             /\ UNCHANGED tables
          \/ /\ loc[i].desc.schemaOk
             /\ tn \in DOMAIN tables
             /\ LET glue_fields == tables[tn].fields
                IN IF Len(metadata_fields) > Len(glue_fields)
                   THEN \E k \in 0..(Len(metadata_fields) - Len(glue_fields)) :
                          LET new == update_schema(glue_fields,
                                                   metadata_fields, k)
                          IN /\ tables' = [tables EXCEPT ![tn].fields = new]
                             /\ pc' = [pc EXCEPT ![i] = "load_file"]
                             /\ loc' = [loc EXCEPT
                                  ![i].schema = new,
                                  ![i].response =
                                     IF k = Len(metadata_fields)
                                            - Len(glue_fields)
                                     THEN "True" ELSE "False"]
                   ELSE /\ UNCHANGED tables
                        /\ pc' = [pc EXCEPT ![i] = "load_file"]
                        /\ loc' = [loc EXCEPT ![i].schema = glue_fields]
    /\ UNCHANGED <<configured, ledger, namespaces, commits, batch, size,
                   counter, count_error, outcomes, delivered>>

\* A slip in the create: the table is created over the one that exists.
CreateTable_replacing(i) ==
    /\ pc[i] = "create_table"
    /\ LET tn == loc[i].desc.tableName
       IN /\ IdentNamespace(tn) \in namespaces
          /\ tables' = [x \in DOMAIN tables \cup {tn} |->
                          IF x = tn
                          THEN [fields |-> loc[i].desc.fields, snapshots |-> 0]
                          ELSE tables[x]]
          /\ pc' = [pc EXCEPT ![i] = "load_file"]
          /\ loc' = [loc EXCEPT ![i].schema = loc[i].desc.fields]
    /\ UNCHANGED <<configured, ledger, namespaces, commits, batch, size,
                   counter, count_error, outcomes, delivered>>

\* 3. check_table: catalog.create_table after NoSuchTableError
CreateTable(i) ==
    /\ pc[i] = "create_table"
    /\ LET tn == loc[i].desc.tableName
       IN \/ /\ tn \notin DOMAIN tables
             /\ IdentNamespace(tn) \in namespaces
             /\ tables' = [x \in DOMAIN tables \cup {tn} |->
                             IF x = tn
                             THEN [fields |-> loc[i].desc.fields,
                                   snapshots |-> 0]
                             ELSE tables[x]]
             /\ pc' = [pc EXCEPT ![i] = "load_file"]
             /\ loc' = [loc EXCEPT ![i].schema = loc[i].desc.fields]
          \/ /\ Fail(i, "CHECK_TABLE_ERROR")
             /\ UNCHANGED tables
    /\ UNCHANGED <<configured, ledger, namespaces, commits, batch, size,
                   counter, count_error, outcomes, delivered>>

\* 4. load_file: None on an error, and a batch without rows is falsy as
\* well; 5. check_partition_columns on the batch (a PartitionSpec object is
\* always truthy)
LoadFile(i) ==
    /\ pc[i] = "load_file"
    /\ \/ Fail(i, "FILE_NOT_FOUND")
       \/ /\ ~check_partition_columns(loc[i].schema, Ev(i).nulls,
                                      loc[i].desc.partition)
          /\ Fail(i, "CHECK_PARTITION_DATA_ERROR")
       \/ /\ check_partition_columns(loc[i].schema, Ev(i).nulls,
                                     loc[i].desc.partition)
          /\ pc' = [pc EXCEPT ![i] = "append"]
          /\ UNCHANGED loc
    /\ UNCHANGED <<configured, ledger, namespaces, tables, commits, batch, size,
                   counter, count_error, outcomes, delivered>>

\* A slip in the append: the write that raises has left its snapshot.
AppendData_snapshot_on_error(i) ==
    /\ pc[i] = "append"
    /\ LET tn == loc[i].desc.tableName
       IN /\ tables' = [tables EXCEPT ![tn].snapshots = @ + 1]
          /\ \/ /\ commits' = [commits EXCEPT ![Ev(i).etag] = @ + 1]
                /\ pc' = [pc EXCEPT ![i] = "transition"]
                /\ loc' = [loc EXCEPT ![i].committed = TRUE,
                                      ![i].desc = NoDesc, ![i].schema = <<>>]
             \/ /\ Fail(i, "WRITE_DATA_ERROR")
                /\ UNCHANGED commits
    /\ UNCHANGED <<configured, ledger, namespaces, batch, size, counter,
                   count_error, outcomes, delivered>>

\* 6. append_data_table: tbl.append commits a snapshot or raises
AppendData(i) ==
    /\ pc[i] = "append"
    /\ LET tn == loc[i].desc.tableName
       IN \/ /\ tables' = [tables EXCEPT ![tn].snapshots = @ + 1]
             /\ commits' = [commits EXCEPT ![Ev(i).etag] = @ + 1]
             /\ pc' = [pc EXCEPT ![i] = "transition"]
             /\ loc' = [loc EXCEPT ![i].committed = TRUE,
                                   ![i].desc = NoDesc, ![i].schema = <<>>]
          \/ /\ Fail(i, "WRITE_DATA_ERROR")
             /\ UNCHANGED <<tables, commits>>
    /\ UNCHANGED <<configured, ledger, namespaces, batch, size, counter,
                   count_error, outcomes, delivered>>

(***************************************************************************)
(* Specifications                                                          *)
(***************************************************************************)
Pipeline(i) ==
    \/ ReadMetadata(i)
    \/ CreateDatabase(i)
    \/ LoadTable(i)
    \/ CreateTable(i)
    \/ LoadFile(i)
    \/ AppendData(i)

\* Invocations may overlap.
Next ==
    \E i \in Invocations :
        \/ Start(i)
        \/ Check(i)
        \/ Admit(i)
        \/ Pipeline(i)
        \/ Transition(i)
        \/ Return(i)

Spec == Init /\ [][Next]_vars

\* One invocation at a time: every record is handled before the next one
\* is delivered.
NextSeq ==
    \E i \in Invocations :
        \/ StartSeq(i)
        \/ Check(i)
        \/ Admit(i)
        \/ Pipeline(i)
        \/ Transition(i)
        \/ Return(i)

SpecSeq == Init /\ [][NextSeq]_vars

(***************************************************************************)
(* Properties                                                              *)
(***************************************************************************)
Terminal == {"COMPLETED", "FAIL"}

\* The step of invocation i that ends the ledger lookup of its record.
CheckStep(i) ==
    /\ pc[i] = "check"
    /\ <<pc'[i], batch'[i]>> # <<pc[i], batch[i]>>

\* The step of invocation i that ends the handling of a processed record.
TransitionStep(i) ==
    /\ pc[i] = "transition"
    /\ pc'[i] \in {"check", "return"}

\* The step of invocation i in which check_table finds the table.
LoadStep(i) ==
    /\ pc[i] = "load_table"
    /\ pc'[i] = "load_file"

IsPrefix(s, t) ==
    /\ Len(s) <= Len(t)
    /\ \A j \in 1..Len(s) : s[j] = t[j]

\* C1: with records handled one at a time, no file (etag) is committed to
\* its table more than once, whatever the ledger calls do.
C1_AtMostOnceCommit == \A e \in Etags : commits[e] <= 1

\* C2: a record whose etag has a COMPLETED or FAIL ledger item ends as a
\* duplicate in the lookup step itself: one more error, no pipeline step, no
\* change of the ledger or the catalog.
C2_DuplicateHasNoEffect ==
    [][\A i \in Invocations :
         (/\ CheckStep(i)
          /\ Ev(i).etag \in DOMAIN ledger
          /\ ledger[Ev(i).etag].status \in Terminal)
         => /\ pc'[i] \in {"check", "return"}
            /\ outcomes'[i]["DUPLICATE"] = outcomes[i]["DUPLICATE"] + 1
            /\ count_error'[i] = count_error[i] + 1
            /\ UNCHANGED <<ledger, namespaces, tables, commits>>]_vars

\* C3: a ledger item is created PENDING, and once it is COMPLETED or FAIL no
\* step changes it.
C3_LedgerLifecycle ==
    [][\A e \in Etags :
         /\ (e \notin DOMAIN ledger /\ e \in DOMAIN ledger')
               => ledger'[e].status = "PENDING"
         /\ (e \in DOMAIN ledger /\ ledger[e].status \in Terminal)
               => (e \in DOMAIN ledger' /\ ledger'[e] = ledger[e])]_vars

\* A batch read under the table schema has this column and no null in it.
ColumnClean(schema, ev, column) ==
    /\ \E j \in 1..Len(schema) : schema[j].name = column
    /\ column \notin ev.nulls

\* C4: tbl.append is reached only with a batch whose partition columns are
\* all present and free of nulls, and a commit is only made from there, so
\* a file with a null in a column every descriptor partitions by is never
\* committed.
C4_PartitionIntegrity ==
    /\ \A i \in Invocations :
         pc[i] = "append" =>
            \A k \in 1..Len(loc[i].desc.partition) :
               ColumnClean(loc[i].schema, Ev(i), loc[i].desc.partition[k])
    /\ \A ev \in Events :
         commits[ev.etag] > 0 =>
            \E d \in Descriptors :
               \A k \in 1..Len(d.partition) : d.partition[k] \notin ev.nulls

C4_Witness ==
    \E i \in Invocations :
        /\ pc[i] = "transition"
        /\ loc[i].committed
        /\ commits[Ev(i).etag] = 1

\* C5: every invocation reaches its return with counter equal to the number
\* of records of the batch and count_error equal to the number of records
\* that ended DUPLICATE or FAILED.
C5_BatchAggregation ==
    \A i \in Invocations :
        /\ pc[i] # "crashed"
        /\ pc[i] = "return" =>
              /\ counter[i] = size[i]
              /\ count_error[i] = outcomes[i]["DUPLICATE"]
                                  + outcomes[i]["FAILED"]

\* C6: no invocation ends with an uncaught exception.
C6_NoFailureEscapes == \A i \in Invocations : pc[i] \notin {"crashed"}

\* The storage call of the Transition of invocation i was made and returned.
TransitionWritten(i) ==
    \E st \in Terminal : ledger' = UpdateItem(ledger, Ev(i), st)

\* C7: when an admitted record (its PENDING item is in the ledger) has been
\* processed and its Transition was written, its ledger item is COMPLETED
\* exactly when the commit succeeded and FAIL exactly when a step failed,
\* schema evolution included, and then nothing was committed.
C7_StatusAgreesWithOutcome ==
    [][\A i \in Invocations :
         (/\ TransitionStep(i)
          /\ Ev(i).etag \in DOMAIN ledger
          /\ ledger[Ev(i).etag].status = "PENDING"
          /\ TransitionWritten(i))
         => LET st == ledger'[Ev(i).etag].status
                failed == loc[i].code # "" \/ loc[i].response = "False"
            IN /\ st = "COMPLETED" <=> loc[i].committed
               /\ st = "FAIL" <=> failed
               /\ failed => ~loc[i].committed]_vars

\* C8 as claimed: when check_table finds a table with L fields and the
\* descriptor has D > L fields, the live schema becomes the L fields
\* followed by the descriptor's fields L+1..D; when D <= L nothing changes.
C8_EvolutionAppendsAll ==
    [][\A i \in Invocations :
         LoadStep(i) =>
            LET tn == loc[i].desc.tableName
                live == tables[tn].fields
                decl == loc[i].desc.fields
                new == tables'[tn].fields
            IN IF Len(decl) > Len(live)
               THEN /\ Len(new) = Len(decl)
                    /\ \A j \in 1..Len(live) : new[j] = live[j]
                    /\ \A j \in (Len(live) + 1)..Len(decl) : new[j] = decl[j]
               ELSE /\ tables' = tables
                    /\ loc'[i].response = "none"]_vars

\* C8 amended: the fields appended are the descriptor's fields L+1..L+k for
\* some k <= D-L, all D-L of them when no add_column fails; the first L
\* fields stay, and with D <= L there is no evolution and no change.
C8_EvolutionAppendsPrefix ==
    [][\A i \in Invocations :
         LoadStep(i) =>
            LET tn == loc[i].desc.tableName
                live == tables[tn].fields
                decl == loc[i].desc.fields
                new == tables'[tn].fields
            IN IF Len(decl) > Len(live)
               THEN /\ Len(new) \in Len(live)..Len(decl)
                    /\ \A j \in 1..Len(live) : new[j] = live[j]
                    /\ \A j \in (Len(live) + 1)..Len(new) : new[j] = decl[j]
                    /\ loc'[i].response = "True" <=> Len(new) = Len(decl)
                    /\ loc'[i].response \in {"True", "False"}
                    /\ \A t \in DOMAIN tables \ {tn} : tables'[t] = tables[t]
               ELSE /\ tables' = tables
                    /\ loc'[i].response = "none"]_vars

C8_Witness ==
    \E i \in Invocations :
        /\ pc[i] = "load_file"
        /\ loc[i].response = "True"
        /\ loc[i].desc = D2
        /\ tables[TnGood].fields = <<F1, F2, F3>>

\* C9: once update_schema has failed for a record, check_table has failed:
\* the record is on its way to FAIL with no further step run.
C9_EvolutionFailureFails ==
    \A i \in Invocations :
        loc[i].response = "False" =>
            /\ pc[i] = "transition"
            /\ loc[i].code = "CHECK_TABLE_ERROR"
            /\ ~loc[i].committed

\* C10: no step removes a namespace or a table, changes or removes a field
\* of a table's live schema, or lowers a table's snapshot count.
C10_NonDestructive ==
    [][/\ namespaces \subseteq namespaces'
       /\ DOMAIN tables \subseteq DOMAIN tables'
       /\ \A t \in DOMAIN tables :
            /\ IsPrefix(tables[t].fields, tables'[t].fields)
            /\ tables'[t].snapshots >= tables[t].snapshots]_vars

C10_Witness ==
    /\ TnGood \in DOMAIN tables
    /\ tables[TnGood].fields = <<F1, F2>>
    /\ tables[TnGood].snapshots = 2

InPipeline == {"metadata", "create_database", "load_table", "create_table",
               "load_file", "append", "transition"}

\* C11: while a record is in the pipeline (from the metadata fetch to the
\* final Transition) the ledger holds a PENDING item for its etag, so that a
\* torn-down invocation leaves the marker a redelivery finds.
C11_PendingBeforeProcessing ==
    \A i \in Invocations :
        pc[i] \in InPipeline =>
            /\ Ev(i).etag \in DOMAIN ledger
            /\ ledger[Ev(i).etag].status = "PENDING"

\* C17: a failed ledger call is acted on as a failure of the record: the
\* handler goes from the lookup to the admission only when the ledger has no
\* item for the etag, and from the admission to the pipeline only when the
\* PENDING item of the record is in the ledger.
C17_LedgerFailuresSurface ==
    [][\A i \in Invocations :
         /\ (pc[i] = "check" /\ pc'[i] = "admit")
               => Ev(i).etag \notin DOMAIN ledger
         /\ (pc[i] = "admit" /\ pc'[i] = "metadata")
               => /\ Ev(i).etag \in DOMAIN ledger'
                  /\ ledger'[Ev(i).etag] = PendingItem(Ev(i))]_vars

\* C18: for every ledger item the status index attribute (GSI-PK) is the
\* item's status and the composite index attribute (GSI-SK) is
\* database#table#etag of the record, after Admit and after Transition.
C18_IndexAttributesConsistent ==
    \A e \in DOMAIN ledger :
        /\ ledger[e].gpk = ledger[e].status
        /\ \E ev \in Events :
              /\ ev.etag = e
              /\ ledger[e].gsk = <<KeyDatabase(ev.key), KeyTable(ev.key), e>>

(***************************************************************************)
(* Ledger calls that return: the environment in which DynamoDB answers     *)
(* every call                                                              *)
(***************************************************************************)
\* get_item returned: no item only when there is none, and no exception
\* other than those of the handler's own code
LookupReturns(i) ==
    /\ pc'[i] = "admit" => Ev(i).etag \notin DOMAIN ledger
    /\ pc'[i] = "crashed" =>
          \/ configured /\ ~KeySplits(Ev(i).key)
          \/ /\ Ev(i).etag \in DOMAIN ledger
             /\ "file_key" \notin DOMAIN ledger[Ev(i).etag]

\* put_item returned
AdmitWritten(i) ==
    /\ pc'[i] = "metadata"
    /\ configured => ledger' = PutItem(ledger, Ev(i))

\* update_item returned
TransitionReturns(i) ==
    /\ pc'[i] # "crashed"
    /\ configured => TransitionWritten(i)

\* The deployment with its ledger table named in the environment.
InitRace == Init /\ configured

\* Overlapping invocations, every ledger call returns.
NextRace ==
    \E i \in Invocations :
        \/ Start(i)
        \/ Check(i) /\ LookupReturns(i)
        \/ Admit(i) /\ AdmitWritten(i)
        \/ Pipeline(i)
        \/ Transition(i) /\ TransitionReturns(i)
        \/ Return(i)

SpecRace == InitRace /\ [][NextRace]_vars

\* C12: the double commit needs no failed ledger call.  With every ledger
\* call returning, an invocation is admitted only after a lookup that found
\* no item, every commit is made under an item of the ledger, and no etag
\* is committed more often than there are overlapping invocations; the
\* witness is the state after the race: both invocations looked the same
\* etag up before either wrote its PENDING item, and both have committed.
C12_CommitsUnderRace ==
    /\ \A i \in Invocations :
          pc[i] \in InPipeline => Ev(i).etag \in DOMAIN ledger
    /\ \A e \in Etags :
          /\ commits[e] <= Cardinality(Invocations)
          /\ commits[e] > 0 => e \in DOMAIN ledger

C12_Witness ==
    /\ \A i \in Invocations :
          /\ pc[i] = "transition"
          /\ loc[i].committed
          /\ Ev(i).etag = "a"
    /\ commits["a"] = 2

\* C14: when an Admit writes the item of an etag that had none, a lookup of
\* the etag in the ledger it leaves returns an item with that id, status
\* PENDING, and the key, size, time and id of the event and the database,
\* table and file name of the key (raw/<database>/<table>/<folder>/<file>).
C14_LookupAfterAdmit ==
    [][\A i \in Invocations :
         (/\ pc[i] = "admit"
          /\ pc'[i] = "metadata"
          /\ Ev(i).etag \notin DOMAIN ledger
          /\ ledger' # ledger)
         => LET ev == Ev(i)
                r == GetItem(ledger', ev.etag)
            IN /\ DOMAIN r # {}
               /\ r.id = ev.etag
               /\ r.status = "PENDING"
               /\ r.file_key = ev.key
               /\ r.file_size = ev.size
               /\ r.event_time = ev.time
               /\ r.event_id = ev.id
               /\ r.database = ev.key[2]
               /\ r.table = ev.key[3]
               /\ r.file_name = ev.key[5]]_vars

C14_Witness ==
    \E i \in Invocations :
        /\ pc[i] = "metadata"
        /\ Ev(i) = EvB
        /\ DOMAIN GetItem(ledger, "b") # {}
        /\ GetItem(ledger, "b").status = "PENDING"
        /\ GetItem(ledger, "b").file_name = "fb"

Malformed == {"unparseable", "empty", "badshape"}

\* C15: a record whose descriptor object is absent fails with
\* METADATA_FILE_NOT_FOUND; one whose object is there but malformed (not
\* JSON, an empty object, not of the required shape or schema) fails with
\* METADATA_FILE_ERROR at the metadata step: no record goes on to the
\* catalog with a malformed descriptor, and nothing is committed for it.
C15_MetadataFailuresDistinguished ==
    \A i \in Invocations :
        /\ loc[i].object = "absent"
              => loc[i].code = "METADATA_FILE_NOT_FOUND"
        /\ loc[i].object \in Malformed
              => loc[i].code = "METADATA_FILE_ERROR"
        /\ loc[i].object # "none"
              => (pc[i] = "transition" /\ ~loc[i].committed)
        /\ loc[i].desc.schemaOk

\* the steps process_event_data and lambda_handler can take after each one
NextSteps ==
    [metadata |-> {"create_database", "load_table", "transition"},
     create_database |-> {"load_table", "transition"},
     load_table |-> {"create_table", "load_file", "transition"},
     create_table |-> {"load_file", "transition"},
     load_file |-> {"append", "transition"},
     append |-> {"transition"},
     transition |-> {"check", "return", "crashed"}]

\* C16: the pipeline steps of a record come in the fixed order and are
\* followed by the Transition; a failed step, a failed schema evolution
\* included, is followed by the Transition alone; and a step creates or
\* changes a namespace or a table only for a record whose descriptor is
\* well-formed and whose table identifier is valid.
C16_StepOrderAndShortCircuit ==
    [][\A i \in Invocations :
         (pc[i] \in InPipeline /\ pc'[i] # pc[i])
         => /\ pc'[i] \in NextSteps[pc[i]]
            /\ (loc'[i].code # "" \/ loc'[i].response = "False")
                  => pc'[i] = "transition"
            /\ (namespaces' # namespaces \/ tables' # tables)
                  => /\ loc[i].desc.schemaOk
                     /\ FullMatch(loc[i].desc.tableName)]_vars

(***************************************************************************)
(* The validation of the table identifier by itself: process_event_data    *)
(* has read a descriptor with some tableName and is at step 1.2             *)
(***************************************************************************)
InitIdent ==
    \E t \in Identifiers :
        /\ configured = FALSE
        /\ ledger = [x \in {} |-> x]
        /\ namespaces = {}
        /\ tables = [x \in {} |-> x]
        /\ commits = [e \in Etags |-> 0]
        /\ pc = [i \in Invocations |->
                    IF i = "inv1" THEN "table_name" ELSE "idle"]
        /\ batch = [i \in Invocations |->
                    IF i = "inv1" THEN <<EvA>> ELSE <<>>]
        /\ size = [i \in Invocations |-> IF i = "inv1" THEN 1 ELSE 0]
        /\ counter = [i \in Invocations |-> 0]
        /\ count_error = [i \in Invocations |-> 0]
        /\ loc = [i \in Invocations |->
                    IF i = "inv1"
                    THEN [NewLoc EXCEPT !.desc = [D1 EXCEPT !.tableName = t]]
                    ELSE NewLoc]
        /\ outcomes = [i \in Invocations |-> NoOutcomes]
        /\ delivered = 1

\* 1.2 Check table_name: TABLE_NAME_ERROR or on to check_glue_database
CheckTableName(i) ==
    /\ pc[i] = "table_name"
    /\ IF ~re_search(loc[i].desc.tableName)
       THEN Fail(i, "TABLE_NAME_ERROR")
       ELSE Step(i, loc[i].desc, "check_glue_database")
    /\ UNCHANGED <<configured, ledger, namespaces, tables, commits, batch, size,
                   counter, count_error, outcomes, delivered>>

NextIdent == \E i \in Invocations : CheckTableName(i)

SpecIdent == InitIdent /\ [][NextIdent]_vars

LowerLetters == {"a", "b", "s"}

\* one or more lowercase letters, a dot, a lowercase letter, and one or more
\* lowercase letters or underscores
ValidIdentifier(t) ==
    \E d \in 2..(Len(t) - 2) :
        /\ t[d] = "."
        /\ \A j \in 1..(d - 1) : t[j] \in LowerLetters
        /\ t[d + 1] \in LowerLetters
        /\ \A j \in (d + 2)..Len(t) : t[j] \in LowerLetters \cup {"_"}

\* C13: the identifier check lets a record pass exactly when its tableName
\* is lowercase letters, a dot, and a table name of a lowercase letter
\* followed by one or more lowercase letters or underscores; every other
\* string ends the record with TABLE_NAME_ERROR.
C13_IdentifierValidator ==
    [][\A i \in Invocations :
         (pc[i] = "table_name" /\ pc'[i] # pc[i])
         => IF ValidIdentifier(loc[i].desc.tableName)
            THEN pc'[i] = "check_glue_database" /\ loc'[i].code = ""
            ELSE /\ pc'[i] = "transition"
                 /\ loc'[i].code = "TABLE_NAME_ERROR"]_vars

(***************************************************************************)
(* The partition check by itself: process_event_data has loaded a batch    *)
(* (with rows: an empty one ends at step 4) and is at step 5                *)
(***************************************************************************)
Columns == {"c1", "c2", "c3"}
Schemas == {<<F1>>, <<F1, F2>>, <<F1, F2, F3>>}
PartitionSpecs == UNION {[1..n -> Columns] : n \in 0..MaxPartitionLen}

InitPartition ==
    \E schema \in Schemas, nulls \in SUBSET Columns,
       partition \in PartitionSpecs :
        /\ configured = FALSE
        /\ ledger = [x \in {} |-> x]
        /\ namespaces = {NsS}
        /\ tables = [x \in {TnGood} |-> [fields |-> schema, snapshots |-> 0]]
        /\ commits = [e \in Etags |-> 0]
        /\ pc = [i \in Invocations |->
                    IF i = "inv1" THEN "check_partition" ELSE "idle"]
        /\ batch = [i \in Invocations |->
                    IF i = "inv1" THEN <<[EvA EXCEPT !.nulls = nulls]>>
                    ELSE <<>>]
        /\ size = [i \in Invocations |-> IF i = "inv1" THEN 1 ELSE 0]
        /\ counter = [i \in Invocations |-> 0]
        /\ count_error = [i \in Invocations |-> 0]
        /\ loc = [i \in Invocations |->
                    IF i = "inv1"
                    THEN [NewLoc EXCEPT
                            !.desc = [D1 EXCEPT !.fields = schema,
                                                !.partition = partition],
                            !.schema = schema]
                    ELSE NewLoc]
        /\ outcomes = [i \in Invocations |-> NoOutcomes]
        /\ delivered = 1

\* 5. Check partition data: CHECK_PARTITION_DATA_ERROR or on to the append
CheckPartitionData(i) ==
    /\ pc[i] = "check_partition"
    /\ IF check_partition_columns(loc[i].schema, Ev(i).nulls,
                                  loc[i].desc.partition)
       THEN pc' = [pc EXCEPT ![i] = "append"] /\ UNCHANGED loc
       ELSE Fail(i, "CHECK_PARTITION_DATA_ERROR")
    /\ UNCHANGED <<configured, ledger, namespaces, tables, commits, batch, size,
                   counter, count_error, outcomes, delivered>>

NextPartition == \E i \in Invocations : CheckPartitionData(i)

SpecPartition == InitPartition /\ [][NextPartition]_vars

\* C19: the partition check passes exactly when every column the partition
\* spec refers to is in the batch and holds no null (the sum of the counts,
\* with a column that cannot be read counted, is zero); otherwise the
\* record fails with CHECK_PARTITION_DATA_ERROR; an empty spec passes.
C19_PartitionValidator ==
    [][\A i \in Invocations :
         (pc[i] = "check_partition" /\ pc'[i] # pc[i])
         => LET partition == loc[i].desc.partition
                clean == \A k \in 1..Len(partition) :
                            ColumnClean(loc[i].schema, Ev(i), partition[k])
            IN /\ clean => pc'[i] = "append" /\ loc'[i].code = ""
               /\ ~clean => /\ pc'[i] = "transition"
                            /\ loc'[i].code = "CHECK_PARTITION_DATA_ERROR"
               /\ partition = <<>> => pc'[i] = "append"]_vars

C19_Witness ==
    \E i \in Invocations :
        /\ pc[i] = "append"
        /\ loc[i].desc.partition = <<"c1", "c2">>
        /\ loc[i].schema = <<F1, F2>>
        /\ Ev(i).nulls = {"c3"}

(***************************************************************************)
(* Progress: the handler runs to the end of its loop.  Every call of an    *)
(* invocation returns or raises, so a step an invocation can take is       *)
(* taken (weak fairness per invocation); the ledger writes return.         *)
(* Invocations come one at a time.                                         *)
(***************************************************************************)
RunWritten(i) ==
    \/ Check(i)
    \/ Admit(i) /\ AdmitWritten(i)
    \/ Pipeline(i)
    \/ Transition(i) /\ TransitionReturns(i)
    \/ Return(i)

NextLive == \E i \in Invocations : StartSeq(i) \/ RunWritten(i)

SpecLive ==
    /\ Init
    /\ [][NextLive]_vars
    /\ \A i \in Invocations : WF_vars(RunWritten(i))

\* C20: with the ledger writes returning and no invocation torn down, a
\* PENDING item always becomes COMPLETED or FAIL, and a record in the
\* pipeline always reaches the end of the loop body through its
\* Transition, whatever step fails, an exception in the pipeline included.
C20_AdmittedReachesTerminal ==
    /\ \A e \in Etags :
          (e \in DOMAIN ledger /\ ledger[e].status = "PENDING")
             ~> (e \in DOMAIN ledger /\ ledger[e].status \in Terminal)
    /\ \A i \in Invocations :
          (pc[i] \in InPipeline) ~> (pc[i] \in {"check", "return"})

C20_Witness ==
    \E i \in Invocations :
        /\ configured
        /\ pc[i] = "return"
        /\ outcomes[i]["FAILED"] = 1
        /\ "a" \in DOMAIN ledger
        /\ ledger["a"].status = "FAIL"

(***************************************************************************)
(* Commit conflicts: the environment in which the ledger answers, the      *)
(* files are clean and nothing fails but tbl.append                        *)
(***************************************************************************)
\* the only failure of process_event_data is the one of append_data_table
OnlyCommitFails(i) == loc'[i].code \in {"", "WRITE_DATA_ERROR"}

\* the batch delivered holds files without nulls
CleanFiles(i) == \A k \in 1..Len(batch'[i]) : batch'[i][k].nulls = {}

NextConflict ==
    \E i \in Invocations :
        \/ StartSeq(i) /\ CleanFiles(i)
        \/ Check(i) /\ LookupReturns(i)
        \/ Admit(i) /\ AdmitWritten(i)
        \/ Pipeline(i) /\ OnlyCommitFails(i)
        \/ Transition(i) /\ TransitionReturns(i)
        \/ Return(i)

SpecConflict == InitRace /\ [][NextConflict]_vars

\* C21: a failed commit ends the record with a code other than the one of
\* the partition check and commits no snapshot, and when the event is
\* delivered again (its item is FAIL because of the failed commit) it is
\* admitted and processed again, not counted as a duplicate.
C21_ConflictRetryable ==
    [][\A i \in Invocations :
         /\ (pc[i] = "append" /\ pc'[i] = "transition" /\ loc'[i].code # "")
               => /\ loc'[i].code # "CHECK_PARTITION_DATA_ERROR"
                  /\ UNCHANGED <<tables, commits>>
         /\ (/\ CheckStep(i)
             /\ Ev(i).etag \in DOMAIN ledger
             /\ ledger[Ev(i).etag].status = "FAIL")
               => pc'[i] = "admit"]_vars

(***************************************************************************)
(* Overlapping invocations with services that answer: the ledger calls     *)
(* return, Glue and the catalog fail a call only for what is in them       *)
(***************************************************************************)
CatalogAnswers(i) ==
    \* get_database raises only EntityNotFoundException
    /\ pc[i] = "metadata" =>
          /\ pc'[i] = "create_database"
                => loc'[i].desc.database \notin namespaces
          /\ loc'[i].code # "GLUE_CONNECTION_ERROR"
    \* create_database raises only AlreadyExistsException
    /\ (pc[i] = "create_database" /\ pc'[i] = "transition")
          => loc[i].desc.database \in namespaces
    \* load_table raises only NoSuchTableError
    /\ (pc[i] = "load_table" /\ pc'[i] = "transition")
          => ~loc[i].desc.schemaOk
    \* update_schema adds every column
    /\ loc'[i].response # "False"
    \* create_table raises only TableAlreadyExistsError
    /\ (pc[i] = "create_table" /\ pc'[i] = "transition")
          => loc[i].desc.tableName \in DOMAIN tables

NextCatalog ==
    \E i \in Invocations :
        \/ Start(i)
        \/ Check(i) /\ LookupReturns(i)
        \/ Admit(i) /\ AdmitWritten(i)
        \/ Pipeline(i) /\ CatalogAnswers(i)
        \/ Transition(i) /\ TransitionReturns(i)
        \/ Return(i)

SpecCatalog == InitRace /\ [][NextCatalog]_vars

\* C22: check_glue_database creates the namespace only when it is absent
\* and succeeds whenever the namespace is there: no create call is issued
\* for a namespace that exists, and a call that meets the namespace (made
\* by another call in between) reports success and changes nothing.
C22_EnsureNamespaceIdempotent ==
    [][\A i \in Invocations :
         /\ (pc[i] = "metadata" /\ pc'[i] = "create_database")
               => loc'[i].desc.database \notin namespaces
         /\ (/\ pc[i] = "create_database"
             /\ pc'[i] # pc[i]
             /\ loc[i].desc.database \in namespaces)
               => /\ pc'[i] = "load_table"
                  /\ namespaces' = namespaces]_vars

AdmissionAttributes ==
    {"status", "file_key", "file_size", "event_time", "event_id", "database",
     "table", "file_name"}

\* C24: every item of the ledger carries all the attributes that Admit
\* writes (status, file key, file size, event time, event id, namespace,
\* table, file name), and a Transition never makes an item for an identity
\* that has none.
C24_RecordsOriginateFromAdmit ==
    \A e \in DOMAIN ledger : AdmissionAttributes \subseteq DOMAIN ledger[e]

LateFailures == {"FILE_NOT_FOUND", "CHECK_PARTITION_DATA_ERROR",
                 "WRITE_DATA_ERROR"}

\* what a step did to one table: nothing, or columns added after the ones
\* it had
ColumnsAppended(t) ==
    /\ IsPrefix(tables[t].fields, tables'[t].fields)
    /\ tables'[t].snapshots = tables[t].snapshots

\* C25: a record that fails at the file load, the partition validation or
\* the append commits no snapshot and undoes nothing: the failing step
\* leaves namespaces and tables as they are, with the namespace, the table
\* and the columns the record made before.  A step changes the catalog only
\* by adding a namespace, adding a table without a snapshot, adding columns
\* after those of a table, or adding a snapshot, and the step that adds a
\* snapshot is the successful append of a record that then ends with no
\* error code; a record with an error code has committed nothing.
C25_FailedEventCatalogEffects ==
    [][/\ \A i \in Invocations :
            /\ (/\ pc[i] \in {"load_file", "append"}
                /\ pc'[i] = "transition"
                /\ loc'[i].code # "")
                  => /\ loc'[i].code \in LateFailures
                     /\ ~loc'[i].committed
                     /\ UNCHANGED <<namespaces, tables, commits>>
            /\ (pc'[i] = "transition" /\ loc'[i].code # "")
                  => ~loc'[i].committed
            /\ (TransitionStep(i) /\ loc[i].code # "")
                  => /\ outcomes'[i]["FAILED"] = outcomes[i]["FAILED"] + 1
                     /\ UNCHANGED <<namespaces, tables, commits>>
       /\ \/ UNCHANGED <<namespaces, tables>>
          \/ /\ UNCHANGED tables
             /\ \E n \in namespaces' : /\ n \notin namespaces
                                       /\ namespaces' = namespaces \cup {n}
          \/ /\ UNCHANGED namespaces
             /\ \E t \in DOMAIN tables' :
                  /\ t \notin DOMAIN tables
                  /\ DOMAIN tables' = DOMAIN tables \cup {t}
                  /\ tables'[t].snapshots = 0
                  /\ \A u \in DOMAIN tables : tables'[u] = tables[u]
          \/ /\ UNCHANGED namespaces
             /\ DOMAIN tables' = DOMAIN tables
             /\ \A t \in DOMAIN tables : ColumnsAppended(t)
          \/ /\ UNCHANGED namespaces
             /\ DOMAIN tables' = DOMAIN tables
             /\ \E i \in Invocations :
                  /\ pc[i] = "append"
                  /\ pc'[i] = "transition"
                  /\ loc'[i].code = ""
                  /\ loc'[i].committed
                  /\ \A t \in DOMAIN tables :
                       /\ tables'[t].fields = tables[t].fields
                       /\ tables'[t].snapshots =
                             tables[t].snapshots
                             + (IF t = loc[i].desc.tableName THEN 1 ELSE 0)]_vars

\* the only record delivered so far has failed late: the namespace and the
\* table it made are there, the table without a snapshot
C25_Witness ==
    \E i \in Invocations :
        /\ delivered = 1
        /\ pc[i] = "transition"
        /\ loc[i].code \in LateFailures
        /\ NsS \in namespaces
        /\ TnGood \in DOMAIN tables
        /\ tables[TnGood].snapshots = 0
        /\ commits[Ev(i).etag] = 0

(***************************************************************************)
(* Descriptors and keys whose names differ.  metadata.json is read from    *)
(* the folder two levels above the file and is whatever was uploaded       *)
(* there: process_event_data takes "database" and "tableName" from it as   *)
(* they are, and manage_dynamo_event takes the namespace from the key.     *)
(***************************************************************************)
NsB == <<"b">>

\* "database" names another namespace than the one in "tableName"
DB == [D1 EXCEPT !.database = NsB]
NameDescriptors == {D1, DB}

\* a file uploaded under the folder of namespace b
EvKeyB == [EvB EXCEPT !.key = <<"raw", "b", "ab", "y", "fb">>, !.nulls = {}]
NameBatches == UNION {[1..n -> {EvA, EvKeyB}] : n \in 1..MaxBatch}

\* a one-character segment of a key, as a name
SegmentName(segment) == <<segment>>

StartNames(i) ==
    /\ \A j \in Invocations : Resting(j)
    /\ FirstFree(i)
    /\ \E b \in NameBatches : Begin(i, b)

NextNames ==
    \E i \in Invocations :
        \/ StartNames(i)
        \/ Check(i)
        \/ Admit(i)
        \/ ReadMetadataFrom(i, NameDescriptors)
        \/ CreateDatabase(i)
        \/ LoadTable(i)
        \/ CreateTable(i)
        \/ LoadFile(i)
        \/ AppendData(i)
        \/ Transition(i)
        \/ Return(i)

SpecNames == Init /\ [][NextNames]_vars

\* C26: while a record has its table loaded or created (from the file load
\* to the append), the namespace check_glue_database ensured (the
\* descriptor's "database"), the namespace of the table identifier that was
\* loaded or created, and the namespace in the record's ledger item are one
\* name.
C26_OneNamespacePerEvent ==
    \A i \in Invocations :
        pc[i] \in {"load_file", "append"} =>
            /\ loc[i].desc.database = IdentNamespace(loc[i].desc.tableName)
            /\ (/\ Ev(i).etag \in DOMAIN ledger
                /\ "database" \in DOMAIN ledger[Ev(i).etag])
                  => SegmentName(ledger[Ev(i).etag].database)
                        = loc[i].desc.database

====
